---- MODULE Spec2Model ----
(***************************************************************************)
(* Model of the upload / scan pipeline of DJCWA/Capstone.                  *)
(*                                                                         *)
(*   backend/app.py         upload_file  (S3 upload, then PENDING record)  *)
(*                          scan_status  (query, fallback scan)            *)
(*   lambda-scan/handler.py lambda_handler, append_event,                  *)
(*                          ensure_clamav_db, run_clamscan                 *)
(*                                                                         *)
(* Text is a sequence of string tokens; "/" is the token Sep.  A key is    *)
(* the text "uploads/<file_id>/<file_name>".  Timestamps are the clock's   *)
(* seconds (utcnow().isoformat(timespec="seconds")), which DynamoDB orders *)
(* as the clock does.  UPLOAD_BUCKET and SCAN_TABLE are configured; an     *)
(* unset SCAN_TABLE raises RuntimeError, one of the ledger failures below. *)
(***************************************************************************)
EXTENDS Integers, Sequences, FiniteSets, TLC

\* ------------------------------------------------------------------ bounds
NumWorkers == 2
MaxBatchLen == 2
MaxUploads == 2
MaxClock == 1
MaxFaults == 1
MaxDeliveries == 2

Workers == 1..NumWorkers

\* --------------------------------------------------------------- constants
None == <<"None">>
Sep == "/"
Bucket == <<"upload-bucket">>
UuidPool == << <<"f1">>, <<"f2">>, <<"f3">>, <<"f4">> >>
FileNames == { <<"a.txt">> }
MalformedKeys == { <<"other", Sep, "x.txt">> }
ExitCodes == {0, 1, 2}
TerminalStatuses == {"CLEAN", "INFECTED", "ERROR"}
StdoutLimit == 2048

VARIABLES
    s3objects,  \* keys of the objects stored in the upload bucket
    table,      \* the DynamoDB table: <<file_id, scan_timestamp>> -> item
    now,        \* the wall clock, in seconds
    nextId,     \* number of uuid4 values drawn so far
    up,         \* the upload_file request in progress and its last response
    st,         \* the scan_status request in progress and its last response
    wk,         \* per lambda invocation: the locals of lambda_handler
    faults,     \* number of failures of S3, DynamoDB, freshclam and clamscan so far
    delivered   \* number of records S3 has delivered to lambda_handler so far

vars == <<s3objects, table, now, nextId, up, st, wk, faults, delivered>>

\* ------------------------------------------------------------ text helpers
Min(a, b) == IF a < b THEN a ELSE b

IsPrefix(s, t) == Len(s) <= Len(t) /\ SubSeq(t, 1, Len(s)) = s

\* str.split("/")
RECURSIVE Split(_)
Split(s) ==
    IF s = <<>> THEN << <<>> >>
    ELSE LET r == Split(Tail(s))
         IN  IF Head(s) = Sep THEN << <<>> >> \o r
             ELSE << <<Head(s)>> \o Head(r) >> \o Tail(r)

\* "/".join(parts)
RECURSIVE Join(_)
Join(parts) ==
    IF parts = <<>> THEN <<>>
    ELSE IF Len(parts) = 1 THEN parts[1]
    ELSE parts[1] \o <<Sep>> \o Join(Tail(parts))

\* Python truthiness of an optional string
Truthy(x) == x # None /\ x # <<>>

\* f"uploads/{file_id}/{original_name}"
S3Key(file_id, name) == <<"uploads", Sep>> \o file_id \o <<Sep>> \o name

\* str(uuid.uuid4()): the n-th value drawn, distinct from all earlier ones
Uuid(n) == UuidPool[n]

\* handler.py: the key pattern test and the two names derived from the key
KeyMatches(key) ==
    LET parts == Split(key) IN Len(parts) >= 3 /\ parts[1] = <<"uploads">>

ParseFileId(key) == IF KeyMatches(key) THEN Split(key)[2] ELSE None

ParseFileName(key) ==
    IF KeyMatches(key)
    THEN LET parts == Split(key) IN Join(SubSeq(parts, 3, Len(parts)))
    ELSE None

\* A text that subprocess captured is a sequence of lines; a line is its
\* words and the number n of its characters that the text holds.
Line(words, n) == [text |-> words, n |-> n]

\* len(text)
RECURSIVE TextLen(_)
TextLen(text) == IF text = <<>> THEN 0 ELSE Head(text).n + TextLen(Tail(text))

\* text[:limit]: the lines that fit, and the fitting part of the next one
RECURSIVE Slice(_, _)
Slice(text, limit) ==
    IF text = <<>> \/ limit = 0 THEN <<>>
    ELSE IF Head(text).n <= limit
         THEN <<Head(text)>> \o Slice(Tail(text), limit - Head(text).n)
         ELSE << [Head(text) EXCEPT !.n = limit] >>

\* the whole text, whatever its length
Truncate_None(text) == text

\* text[:2048]
Truncate(text) == Slice(text, StdoutLimit)

\* ---------------------------------------------------------------- DynamoDB
Event(ts, kind, arg) == [timestamp |-> ts, message |-> [kind |-> kind, arg |-> arg]]

\* a SET that assigns the new entries instead of appending them
ListAppend_Overwrite(old, new) == new

\* list_append(a, b)
ListAppend(old, new) == old \o new

RowsOf(t, file_id) == {k \in DOMAIN t : k[1] = file_id}

\* query(KeyConditionExpression=file_id.eq, ScanIndexForward=False, Limit=1)
QueryLatest(t, file_id) ==
    LET ks == RowsOf(t, file_id)
    IN  IF ks = {} THEN <<>>
        ELSE << t[CHOOSE k \in ks : \A j \in ks : j[2] <= k[2]] >>

\* put_item(Item=item): the item replaces any item with the same key
PutItem(t, item) ==
    LET key == <<item.file_id, item.scan_timestamp>>
    IN  [k \in DOMAIN t \cup {key} |-> IF k = key THEN item ELSE t[k]]

\* an item that update_item creates when the key is absent
BlankItem(key) ==
    [file_id |-> key[1], scan_timestamp |-> key[2], file_name |-> None,
     s3_bucket |-> None, s3_key |-> None, scan_status |-> "ABSENT",
     scan_detail |-> "ABSENT", scan_events |-> <<>>,
     created_at |-> -1, updated_at |-> -1]

\* an append that also marks the record as failed
UpdateEvents_SetsError(t, key, u, ev) ==
    LET old == IF key \in DOMAIN t THEN t[key] ELSE BlankItem(key)
        new == [old EXCEPT !.scan_status = "ERROR", !.updated_at = u,
                           !.scan_events = ListAppend(old.scan_events, ev)]
    IN  [k \in DOMAIN t \cup {key} |-> IF k = key THEN new ELSE t[k]]

\* an update addressed to the key (file_id, now) instead of the key that
\* the query returned
UpdateEvents_NewRevision(t, key, u, ev) ==
    LET at == <<key[1], u>>
        old == IF at \in DOMAIN t THEN t[at] ELSE BlankItem(at)
        new == [old EXCEPT !.updated_at = u,
                           !.scan_events = ListAppend(old.scan_events, ev)]
    IN  [k \in DOMAIN t \cup {at} |-> IF k = at THEN new ELSE t[k]]

\* update_item(... SET updated_at = :u,
\*             scan_events = list_append(if_not_exists(scan_events, :empty), :ev))
UpdateEvents(t, key, u, ev) ==
    LET old == IF key \in DOMAIN t THEN t[key] ELSE BlankItem(key)
        new == [old EXCEPT !.updated_at = u,
                           !.scan_events = ListAppend(old.scan_events, ev)]
    IN  [k \in DOMAIN t \cup {key} |-> IF k = key THEN new ELSE t[k]]

\* an update of status, detail and updated_at that leaves the events to a
\* later call
UpdateStatus_StatusOnly(t, key, s, d, u, ev) ==
    LET old == IF key \in DOMAIN t THEN t[key] ELSE BlankItem(key)
        new == [old EXCEPT !.scan_status = s, !.scan_detail = d, !.updated_at = u]
    IN  [k \in DOMAIN t \cup {key} |-> IF k = key THEN new ELSE t[k]]

\* an update that writes the status and leaves the detail as it was
UpdateStatus_KeepDetail(t, key, s, d, u, ev) ==
    LET old == IF key \in DOMAIN t THEN t[key] ELSE BlankItem(key)
        new == [old EXCEPT !.scan_status = s, !.updated_at = u,
                           !.scan_events = ListAppend(old.scan_events, ev)]
    IN  [k \in DOMAIN t \cup {key} |-> IF k = key THEN new ELSE t[k]]

\* update_item(... SET scan_status = :s, scan_detail = :d, updated_at = :u,
\*             scan_events = list_append(if_not_exists(scan_events, :empty), :ev))
UpdateStatus(t, key, s, d, u, ev) ==
    LET old == IF key \in DOMAIN t THEN t[key] ELSE BlankItem(key)
        new == [old EXCEPT !.scan_status = s, !.scan_detail = d,
                           !.updated_at = u,
                           !.scan_events = ListAppend(old.scan_events, ev)]
    IN  [k \in DOMAIN t \cup {key} |-> IF k = key THEN new ELSE t[k]]

\* utcnow(): the clock may have advanced since it was last read
ClockReads == {t \in {now, now + 1} : t <= MaxClock}

\* a call of S3, DynamoDB, freshclam or clamscan raises: at most MaxFaults
\* times in a run
Fails == faults < MaxFaults /\ faults' = faults + 1

Works == faults' = faults

\* a DynamoDB call of the append_event that reports a freshclam failure may
\* raise as well, after the failure of freshclam itself
FailsToo(r) == r.ae_site = "dbfail" /\ faults' = faults

\* ------------------------------------------------------------------- Init
IdleUpload == [pc |-> "idle", file_id |-> None, name |-> None, key |-> None,
               resp |-> [code |-> 0]]

IdleStatus == [pc |-> "idle", file_id |-> None, path |-> "None", resp |-> [code |-> 0]]

\* The locals of lambda_handler and of the append_event call in progress.
\*   pc          position: idle, loop (top of the for loop), download, ae_query,
\*               ae_update, freshclam, clamscan, upd_query, upd_write,
\*               done (end of the loop body), returned
\*   local_file  the key whose bytes are at /tmp/scan_input
\*   exc         str(e) of the exception raised in the loop body
\*   rc          result.returncode of clamscan, -1 before it has run
\*   ae_*        append_event: call site, message, now_iso
\*   guard       history: scan_status of the latest record of file_id when the
\*               loop body began ("None" without a record); the code has no
\*               such local, the properties refer to it
IdleWorker ==
    [pc |-> "idle", records |-> <<>>, idx |-> 1, results |-> <<>>,
     bucket |-> None, key |-> None, file_id |-> None, file_name |-> None,
     local_file |-> None, exc |-> "None", rc |-> -1,
     status |-> "None", detail |-> "None", stdout |-> <<>>, stderr |-> <<>>,
     ae_site |-> "None", ae_msg |-> <<>>, ae_now |-> 0, scan_timestamp |-> 0,
     guard |-> "None"]

Init ==
    /\ s3objects = {}
    /\ table = <<>>
    /\ now = 0
    /\ nextId = 0
    /\ up = IdleUpload
    /\ st = IdleStatus
    /\ wk = [w \in Workers |-> IdleWorker]
    /\ faults = 0
    /\ delivered = 0

\* -------------------------------------------------- backend: upload_file
\* app.py 90-95: the request has no file part, or an empty filename
UploadReject ==
    /\ up.pc = "idle"
    /\ \E e \in {"No file part in request", "Empty filename"} :
          up' = [up EXCEPT !.resp = [code |-> 400, error |-> e]]
    /\ UNCHANGED <<s3objects, table, now, nextId, st, wk, faults, delivered>>

\* app.py 97-113: draw the file_id, upload the bytes to S3
UploadStore ==
    /\ up.pc = "idle"
    /\ nextId < MaxUploads
    /\ nextId' = nextId + 1
    /\ \E name \in FileNames :
         LET file_id == Uuid(nextId + 1)
             s3_key == S3Key(file_id, name)
         IN  \/ /\ Works
                /\ s3objects' = s3objects \cup {s3_key}
                /\ up' = [up EXCEPT !.pc = "stored", !.file_id = file_id,
                                    !.name = name, !.key = s3_key]
             \/ /\ Fails
                /\ s3objects' = s3objects
                /\ up' = [IdleUpload EXCEPT !.resp =
                             [code |-> 500, error |-> "Failed to upload file to S3"]]
    /\ UNCHANGED <<table, now, st, wk, delivered>>

\* an item written without its first event
PendingItem_NoEvents(file_id, name, s3_key, now_iso) ==
    [file_id |-> file_id, scan_timestamp |-> now_iso, file_name |-> name,
     s3_bucket |-> Bucket, s3_key |-> s3_key, scan_status |-> "PENDING",
     scan_detail |-> "Waiting for Lambda scanner to run.",
     scan_events |-> <<>>,
     created_at |-> now_iso, updated_at |-> now_iso]

\* the item of app.py 122-140
PendingItem(file_id, name, s3_key, now_iso) ==
    [file_id |-> file_id, scan_timestamp |-> now_iso, file_name |-> name,
     s3_bucket |-> Bucket, s3_key |-> s3_key, scan_status |-> "PENDING",
     scan_detail |-> "Waiting for Lambda scanner to run.",
     scan_events |-> << Event(now_iso, "File uploaded to S3 and scan record created.", <<>>) >>,
     created_at |-> now_iso, updated_at |-> now_iso]

\* app.py 115-155: write the PENDING record, answer 200
UploadPut ==
    /\ up.pc = "stored"
    /\ \/ \E now_iso \in ClockReads :
            /\ Works
            /\ now' = now_iso
            /\ table' = PutItem(table, PendingItem(up.file_id, up.name, up.key, now_iso))
            /\ up' = [IdleUpload EXCEPT !.resp =
                         [code |-> 200, file_id |-> up.file_id, file_name |-> up.name,
                          status |-> "PENDING",
                          detail |-> "File uploaded. Waiting for scan to start."]]
       \/ /\ Fails
          /\ UNCHANGED <<now, table>>
          /\ up' = [IdleUpload EXCEPT !.resp =
                       [code |-> 500, error |-> "Failed to write scan record to DynamoDB"]]
    /\ UNCHANGED <<s3objects, nextId, st, wk, delivered>>

\* -------------------------------------------------- backend: scan_status
\* the JSON body of app.py 219-251
StatusBody(item, file_id) ==
    [code |-> 200, file_id |-> item.file_id, file_name |-> item.file_name,
     status |-> item.scan_status, detail |-> item.scan_detail,
     events |-> [i \in 1..Len(item.scan_events) |->
                    [timestamp |-> item.scan_events[i].timestamp,
                     message |-> item.scan_events[i].message]]]

\* a scan that leaves the filter out
ScanFilter_NoFilter(t, file_id) == {t[k] : k \in DOMAIN t}

\* scan(FilterExpression=Attr("file_id").eq(file_id)): the matching items
ScanFilter(t, file_id) == {t[k] : k \in RowsOf(t, file_id)}

\* the file ids a caller may ask for: those issued so far and an unknown one
StatusArgs == {Uuid(n) : n \in 1..nextId} \cup {<<"unknown">>}

\* the request is answered: file_id asked for, path taken, response
Answer(file_id, path, resp) ==
    [pc |-> "idle", file_id |-> file_id, path |-> path, resp |-> resp]

\* app.py 172-174: the file_id parameter is missing
StatusReject ==
    /\ st.pc = "idle"
    /\ st' = Answer(None, "None", [code |-> 400, error |-> "Missing file_id"])
    /\ UNCHANGED <<s3objects, table, now, nextId, up, wk, faults, delivered>>

\* app.py 181-201: the query on the partition key
StatusQuery ==
    /\ st.pc = "idle"
    /\ \E file_id \in StatusArgs :
         \/ /\ Works
            /\ LET items == QueryLatest(table, file_id)
               IN  IF items # <<>>
                   THEN st' = Answer(file_id, "query", StatusBody(items[1], file_id))
                   ELSE st' = [IdleStatus EXCEPT !.pc = "fallback", !.file_id = file_id]
         \/ /\ Fails
            /\ st' = [IdleStatus EXCEPT !.pc = "fallback", !.file_id = file_id]
    /\ UNCHANGED <<s3objects, table, now, nextId, up, wk, delivered>>

\* app.py 203-219: the fallback scan. The items come in no particular order,
\* and the one page that is read may hold none of them (the filter is applied
\* to the page), which answers 404
StatusFallback ==
    /\ st.pc = "fallback"
    /\ LET items == ScanFilter(table, st.file_id)
       IN  \/ /\ Works
              /\ items # {}
              /\ \E item \in items :
                    st' = Answer(st.file_id, "scan", StatusBody(item, st.file_id))
           \/ /\ Works
              /\ st' = Answer(st.file_id, "scan", [code |-> 404, error |-> "No record found"])
           \/ /\ Fails
              /\ st' = Answer(st.file_id, "scan",
                              [code |-> 500, error |-> "Failed to read scan record from DynamoDB"])
    /\ UNCHANGED <<s3objects, table, now, nextId, up, wk, delivered>>

\* ------------------------------------------------ lambda: lambda_handler
SetWorker(w, r) == wk' = [wk EXCEPT ![w] = r]

\* the locals of one loop iteration, before the record is read
FreshLocals(r) ==
    [IdleWorker EXCEPT !.pc = r.pc, !.records = r.records, !.idx = r.idx,
                       !.results = r.results, !.local_file = r.local_file]

\* the records S3 may deliver: one per stored object (any number of times),
\* objects stored outside the uploads/ convention, a record without a key
RecordChoices ==
    {[bucket |-> Bucket, key |-> k] : k \in s3objects \cup MalformedKeys}
        \cup {[bucket |-> Bucket, key |-> None]}

Batches == UNION {[1..n -> RecordChoices] : n \in 0..MaxBatchLen}

\* handler.py 173-178: an invocation with event["Records"] = records
Invoke(w) ==
    /\ wk[w].pc = "idle"
    /\ \E records \in Batches :
          /\ delivered + Len(records) <= MaxDeliveries
          /\ delivered' = delivered + Len(records)
          /\ SetWorker(w, [IdleWorker EXCEPT !.pc = "loop", !.records = records])
    /\ UNCHANGED <<s3objects, table, now, nextId, up, st, faults>>

\* history: scan_status of the latest record of file_id when the loop body
\* begins; recorded for the properties, read by no action
StatusAtStart(file_id) ==
    IF Truthy(file_id) /\ QueryLatest(table, file_id) # <<>>
    THEN QueryLatest(table, file_id)[1].scan_status
    ELSE "None"

\* handler.py 180-203: read the next record, derive file_id and file_name
ReadRecord(w) ==
    LET r == wk[w]
        rec == r.records[r.idx]
    IN  /\ r.pc = "loop"
        /\ r.idx <= Len(r.records)
        /\ IF ~Truthy(rec.bucket) \/ ~Truthy(rec.key)
           THEN SetWorker(w, [r EXCEPT !.idx = r.idx + 1])
           ELSE SetWorker(w, [r EXCEPT !.pc = "download", !.bucket = rec.bucket,
                                       !.key = rec.key,
                                       !.file_id = ParseFileId(rec.key),
                                       !.file_name = ParseFileName(rec.key),
                                       !.guard = StatusAtStart(ParseFileId(rec.key))])
        /\ UNCHANGED <<s3objects, table, now, nextId, up, st, faults, delivered>>

\* handler.py 306-308: the loop is over
Return(w) ==
    LET r == wk[w]
    IN  /\ r.pc = "loop"
        /\ r.idx > Len(r.records)
        /\ SetWorker(w, [FreshLocals(r) EXCEPT !.pc = "returned"])
        /\ UNCHANGED <<s3objects, table, now, nextId, up, st, faults, delivered>>

\* an except clause that lets the exception leave lambda_handler
HandlerExcept_Reraise(r, e) == [r EXCEPT !.pc = "returned", !.exc = e]

\* handler.py 298-304: the except clause of the loop body
HandlerExcept(r, e) ==
    [r EXCEPT !.pc = "done", !.exc = e, !.results = Append(@, [error |-> e])]

\* handler.py 287-296: the result entry of a scanned record
HandlerResult(r) ==
    [r EXCEPT !.pc = "done",
              !.results = Append(@, [bucket |-> r.bucket, key |-> r.key,
                                     file_id |-> r.file_id, file_name |-> r.file_name,
                                     status |-> r.status, detail |-> r.detail])]

\* the end of one loop iteration
NextRecord(w) ==
    LET r == wk[w]
    IN  /\ r.pc = "done"
        /\ SetWorker(w, [FreshLocals(r) EXCEPT !.pc = "loop", !.idx = r.idx + 1])
        /\ UNCHANGED <<s3objects, table, now, nextId, up, st, faults, delivered>>

\* a call of append_event(file_id, message) from the given site
CallAppendEvent(r, site, kind, arg) ==
    [r EXCEPT !.pc = "ae_query", !.ae_site = site, !.ae_msg = <<kind, arg>>]

\* handler.py 205-210: download the object, then report the start
Download(w) ==
    LET r == wk[w]
    IN  /\ r.pc = "download"
        /\ \/ /\ Works
              /\ LET d == [r EXCEPT !.local_file = r.key]
                 IN  IF Truthy(r.file_id)
                     THEN SetWorker(w, CallAppendEvent(d, "started",
                                       "Lambda scanner started for this file.", <<>>))
                     ELSE SetWorker(w, [d EXCEPT !.pc = "freshclam"])
           \/ /\ Fails
              /\ SetWorker(w, HandlerExcept(r, "download_file failed"))
        /\ UNCHANGED <<s3objects, table, now, nextId, up, st, delivered>>

\* where append_event returns to: the scan, or the raise of handler.py 222
AfterAppendEvent(r) ==
    IF r.ae_site = "started" THEN [r EXCEPT !.pc = "freshclam"]
    ELSE HandlerExcept(r, r.exc)

\* handler.py 49-66: append_event reads the clock and queries the latest record
AppendEventQuery(w) ==
    LET r == wk[w]
    IN  /\ r.pc = "ae_query"
        /\ \/ \E now_iso \in ClockReads :
                LET items == QueryLatest(table, r.file_id)
                IN  /\ Works
                    /\ now' = now_iso
                    /\ IF items = <<>>
                       THEN SetWorker(w, AfterAppendEvent(r))
                       ELSE SetWorker(w, [r EXCEPT !.pc = "ae_update",
                                                   !.ae_now = now_iso,
                                                   !.scan_timestamp = items[1].scan_timestamp])
           \/ /\ Fails \/ FailsToo(r)
              /\ now' = now
              /\ SetWorker(w, AfterAppendEvent(r))
        /\ UNCHANGED <<s3objects, table, nextId, up, st, delivered>>

\* handler.py 68-89: append_event appends the entry; a failure is logged
AppendEventUpdate(w) ==
    LET r == wk[w]
    IN  /\ r.pc = "ae_update"
        /\ \/ /\ Works
              /\ table' = UpdateEvents(table, <<r.file_id, r.scan_timestamp>>, r.ae_now,
                                       << Event(r.ae_now, r.ae_msg[1], r.ae_msg[2]) >>)
           \/ /\ Fails \/ FailsToo(r)
              /\ table' = table
        /\ SetWorker(w, AfterAppendEvent(r))
        /\ UNCHANGED <<s3objects, now, nextId, up, st, delivered>>

\* str(e) of the RuntimeError that ensure_clamav_db raises (handler.py 116-124)
FreshclamFailures ==
    {"Error running freshclam: No such file", "Error running freshclam: timed out",
     "freshclam failed (rc=2)"}

\* handler.py 212-222: ensure_clamav_db; rc 0 and 1 are both a success
Freshclam(w) ==
    LET r == wk[w]
    IN  /\ r.pc = "freshclam"
        /\ \/ /\ Works
              /\ SetWorker(w, [r EXCEPT !.pc = "clamscan"])
           \/ /\ Fails
              /\ \E e \in FreshclamFailures :
                   IF Truthy(r.file_id)
                   THEN SetWorker(w, CallAppendEvent([r EXCEPT !.exc = e], "dbfail",
                                                     "Failed to update ClamAV DB:", <<e>>))
                   ELSE SetWorker(w, HandlerExcept(r, e))
        /\ UNCHANGED <<s3objects, table, now, nextId, up, st, delivered>>

\* handler.py 157-165: the verdict of an exit code
Verdict(rc) ==
    IF rc = 0 THEN "CLEAN" ELSE IF rc = 1 THEN "INFECTED" ELSE "ERROR"

VerdictDetail(rc) ==
    IF rc = 0 THEN "No malware detected by ClamAV."
    ELSE IF rc = 1 THEN "Malware detected by ClamAV."
    ELSE "ClamAV error (exit code 2)."

\* what clamscan prints for an exit code
EngineStdout(rc) ==
    IF rc = 1
    THEN << Line(<<"/tmp/scan_input:", "Eicar-Signature", "FOUND">>, 39),
            Line(<<"LibClamAV", "Warning:", "database", "is", "older", "than", "7", "days">>, 2500),
            Line(<<"SCAN", "SUMMARY">>, 300) >>
    ELSE IF rc = 0
    THEN << Line(<<"/tmp/scan_input:", "OK">>, 20), Line(<<"SCAN", "SUMMARY">>, 300) >>
    ELSE <<>>

EngineStderr(rc) ==
    IF rc \in {0, 1} THEN <<>>
    ELSE << Line(<<"ERROR:", "Can't", "open", "file">>, 23),
            Line(<<"LibClamAV", "Error:", "cli_loaddbdir:", "error", "parsing", "database">>, 2026) >>

\* what subprocess.run raises when clamscan cannot be run to its end
ClamscanFailures ==
    {"No such file or directory: '/opt/bin/clamscan'", "clamscan timed out after 120 seconds"}

\* handler.py 224-228 and 132-167: run_clamscan
Clamscan(w) ==
    LET r == wk[w]
    IN  /\ r.pc = "clamscan"
        /\ \/ \E rc \in ExitCodes :
                /\ Works
                /\ LET d == [r EXCEPT !.rc = rc, !.status = Verdict(rc),
                                   !.detail = VerdictDetail(rc),
                                   !.stdout = EngineStdout(rc),
                                   !.stderr = EngineStderr(rc)]
                   IN  IF Truthy(r.file_id)
                       THEN SetWorker(w, [d EXCEPT !.pc = "upd_query"])
                       ELSE SetWorker(w, HandlerResult(d))
           \/ /\ Fails
              /\ \E e \in ClamscanFailures : SetWorker(w, HandlerExcept(r, e))
        /\ UNCHANGED <<s3objects, table, now, nextId, up, st, delivered>>

\* handler.py 229-242, 282-285: query the latest record of file_id
UpdateQuery(w) ==
    LET r == wk[w]
    IN  /\ r.pc = "upd_query"
        /\ \/ /\ Works
              /\ LET items == QueryLatest(table, r.file_id)
                 IN  IF items = <<>>
                     THEN SetWorker(w, HandlerResult(r))
                     ELSE SetWorker(w, [r EXCEPT !.pc = "upd_write",
                                                 !.scan_timestamp = items[1].scan_timestamp])
           \/ /\ Fails
              /\ SetWorker(w, HandlerResult(r))
        /\ UNCHANGED <<s3objects, table, now, nextId, up, st, delivered>>

\* handler.py 246-261: the three entries of a completed scan
NewEvents(now_iso, status, detail, stdout, stderr) ==
    << Event(now_iso, "Lambda scan completed with status", <<status, detail>>),
       Event(now_iso, "ClamAV stdout:", Truncate(stdout)),
       Event(now_iso, "ClamAV stderr:", Truncate(stderr)) >>

\* handler.py 244-285: write status, detail and events; a failure is logged
UpdateWrite(w) ==
    LET r == wk[w]
    IN  /\ r.pc = "upd_write"
        /\ \/ \E now_iso \in ClockReads :
                /\ Works
                /\ now' = now_iso
                /\ table' = UpdateStatus(table, <<r.file_id, r.scan_timestamp>>,
                                         r.status, r.detail, now_iso,
                                         NewEvents(now_iso, r.status, r.detail,
                                                   r.stdout, r.stderr))
           \/ Fails /\ UNCHANGED <<now, table>>
        /\ SetWorker(w, HandlerResult(r))
        /\ UNCHANGED <<s3objects, nextId, up, st, delivered>>

\* ------------------------------------------------------------------- Next
Worker(w) ==
    \/ Invoke(w)
    \/ ReadRecord(w)
    \/ Return(w)
    \/ NextRecord(w)
    \/ Download(w)
    \/ AppendEventQuery(w)
    \/ AppendEventUpdate(w)
    \/ Freshclam(w)
    \/ Clamscan(w)
    \/ UpdateQuery(w)
    \/ UpdateWrite(w)

Intake == UploadStore \/ UploadPut

Status == StatusReject \/ StatusQuery \/ StatusFallback

\* uploads and scans
Next == Intake \/ \E w \in Workers : Worker(w)

\* one invocation of lambda_handler with an event of at most one record
SingleRecordWorker == Worker(1) /\ Len(wk'[1].records) <= 1

\* the callers of the HTTP API, with uploads and single-record scans
NextApi == Intake \/ UploadReject \/ Status \/ SingleRecordWorker

Spec == Init /\ [][Next]_vars

SpecApi == Init /\ [][NextApi]_vars

\* ------------------------------------------------------------- properties
HasRow(file_id) == RowsOf(table, file_id) # {}

LatestStatus(file_id) == QueryLatest(table, file_id)[1].scan_status

LatestDetail(file_id) == QueryLatest(table, file_id)[1].scan_detail

\* the worker is inside the loop body, between reading a record and its end
InRecord(w) == wk[w].pc \notin {"idle", "loop", "returned"}

\* the step is one of worker w
Acts(w) == wk'[w] # wk[w]

\* C1: once the latest record of a file_id is terminal, processing a further
\* notification for its key never runs clamscan and leaves the table unchanged.
C1_IdempotencyGuard ==
    [][\A w \in Workers :
          (wk[w].guard \in TerminalStatuses /\ Acts(w))
              => (table' = table /\ wk[w].pc # "clamscan")]_vars

\* C2: a status only moves forward along PENDING -> SCANNING -> terminal; a
\* terminal status is never replaced by a different one.
StatusRank(s) == IF s = "PENDING" THEN 0 ELSE IF s = "SCANNING" THEN 1 ELSE 2

C2_TerminalAbsorbing ==
    [][\A k \in DOMAIN table :
          /\ k \in DOMAIN table'
          /\ \/ table'[k].scan_status = table[k].scan_status
             \/ StatusRank(table[k].scan_status) < StatusRank(table'[k].scan_status)]_vars

\* C3: when the record exists and download and freshclam succeeded, the status
\* in the ledger at the end of the job is CLEAN for exit code 0, INFECTED for
\* exit code 1, ERROR for any other exit code and for a launch failure or a
\* timeout of clamscan.
C3_TotalVerdict ==
    \A w \in Workers :
        LET r == wk[w]
            claimed == IF r.rc = 0 THEN "CLEAN"
                       ELSE IF r.rc = 1 THEN "INFECTED" ELSE "ERROR"
        IN  (/\ r.pc = "done"
             /\ r.guard # "None"
             /\ (r.rc # -1 \/ r.exc \in ClamscanFailures))
                => LatestStatus(r.file_id) = claimed

\* C4: the scan_events of a record only grow at their end: every step leaves
\* each record in the table with its former events as a prefix of the new ones.
C4_EventLogAppendOnly ==
    [][\A k \in DOMAIN table :
          /\ k \in DOMAIN table'
          /\ IsPrefix(table[k].scan_events, table'[k].scan_events)]_vars

\* C4 witness: two workers have both reported their start on one record
\* before either wrote its result, and both results are in the list.
C4_Witness ==
    \E k \in DOMAIN table :
        LET ev == table[k].scan_events
        IN  /\ Len(ev) = 9
            /\ ev[2].message.kind = "Lambda scanner started for this file."
            /\ ev[3].message.kind = "Lambda scanner started for this file."

\* C5: a 200 answer of scan_status carries the record with the greatest
\* scan_timestamp among the records of the file_id asked for, on the query
\* path and on the fallback scan path; the record lambda_handler and
\* append_event pick for their update is that record too.
IsLatestKey(t, k) == k \in DOMAIN t /\ \A j \in RowsOf(t, k[1]) : j[2] <= k[2]

C5_LatestOnBothPaths ==
    [][/\ (st' # st /\ st'.resp.code = 200)
            => \E k \in DOMAIN table :
                  /\ k[1] = st'.file_id
                  /\ IsLatestKey(table, k)
                  /\ st'.resp = StatusBody(table[k], st'.file_id)
       /\ \A w \in Workers :
            (Acts(w) /\ wk'[w].pc \in {"ae_update", "upd_write"})
                => IsLatestKey(table, <<wk'[w].file_id, wk'[w].scan_timestamp>>)]_vars

\* C5 witness: the fallback scan answered 200 while two objects had records.
C5_Witness ==
    /\ st.path = "scan"
    /\ st.resp.code = 200
    /\ Cardinality(DOMAIN table) >= 2

\* C6: when freshclam or clamscan cannot be run, times out or fails, and the
\* record of the file_id exists, the job ends with the latest record in status
\* ERROR and a detail that carries the failure.
C6_FailureEndsInError ==
    \A w \in Workers :
        LET r == wk[w]
        IN  (/\ r.pc = "done"
             /\ r.exc \in FreshclamFailures \cup ClamscanFailures
             /\ r.guard # "None")
                => /\ LatestStatus(r.file_id) = "ERROR"
                   /\ LatestDetail(r.file_id) = r.exc

\* C7: when the download fails, neither freshclam nor clamscan has run for the
\* record, and the latest record of the file_id is in status ERROR.
C7_DownloadFailure ==
    \A w \in Workers :
        LET r == wk[w]
        IN  (r.pc = "done" /\ r.exc = "download_file failed")
                => /\ r.rc = -1
                   /\ r.status = "None"
                   /\ r.guard # "None" => LatestStatus(r.file_id) = "ERROR"

\* C8: every record of the event that carries a bucket and a key adds exactly
\* one entry to results, in the order of the event, whatever failed before it;
\* lambda_handler returns only after the last record.
IsComplete(rec) == Truthy(rec.bucket) /\ Truthy(rec.key)

Processed(r) == IF r.pc = "done" THEN r.idx ELSE r.idx - 1

C8_BatchIsolation ==
    \A w \in Workers :
        LET r == wk[w]
            seen == SelectSeq(SubSeq(r.records, 1, Processed(r)), IsComplete)
        IN  /\ Len(r.results) = Len(seen)
            /\ \A i \in 1..Len(seen) :
                  \/ DOMAIN r.results[i] = {"error"}
                  \/ /\ r.results[i].bucket = seen[i].bucket
                     /\ r.results[i].key = seen[i].key
            /\ r.pc = "returned" => Processed(r) = Len(r.records)

\* C8 witness: an event of two records has been handled to its end; the first
\* record failed and the second was scanned.
C8_Witness ==
    \E w \in Workers :
        LET r == wk[w]
        IN  /\ r.pc = "returned"
            /\ Len(r.records) = 2
            /\ Len(r.results) = 2
            /\ DOMAIN r.results[1] = {"error"}
            /\ DOMAIN r.results[2] # {"error"}
            /\ r.results[2].status = "CLEAN"

\* C9: for a key that does not match uploads/<file_id>/<file_name> the worker
\* downloads nothing, runs neither freshclam nor clamscan, and leaves the
\* table as it is.
C9_MalformedKeyDropped ==
    [][\A w \in Workers :
          (Acts(w) /\ InRecord(w) /\ ~KeyMatches(wk[w].key))
              => /\ wk[w].pc \notin {"download", "freshclam", "clamscan"}
                 /\ table' = table]_vars

\* C10: while a worker handles the record of uploads/<file_id>/..., the table
\* holds a record of that file_id.
C10_RecordBeforeNotification ==
    \A w \in Workers :
        (InRecord(w) /\ Truthy(wk[w].file_id)) => HasRow(wk[w].file_id)

\* C11: a worker runs clamscan on a recorded object only after the status of
\* its latest record left PENDING for SCANNING, and a record takes a terminal
\* status only from SCANNING.
C11_ScanningPrecedesEngine ==
    [][/\ \A w \in Workers :
            (Acts(w) /\ wk[w].pc = "clamscan" /\ wk[w].guard # "None")
                => LatestStatus(wk[w].file_id) # "PENDING"
       /\ \A k \in DOMAIN table :
            (/\ k \in DOMAIN table'
             /\ table[k].scan_status \notin TerminalStatuses
             /\ table'[k].scan_status \in TerminalStatuses)
                => table[k].scan_status = "SCANNING"]_vars

\* C12: a step of a worker that changes the table appends all the events the
\* worker submitted to the events the record holds at that step, whatever other
\* workers appended since the worker read the record; the final update writes
\* status, detail, updated_at and its three events in that one step, so that
\* in every state a record with a terminal status holds the events of the
\* update that set it.
StatusHasEvents(item) ==
    LET ev == item.scan_events
    IN  item.scan_status \in TerminalStatuses
            => \E i \in 1..(Len(ev) - 2) :
                  /\ ev[i].message.kind = "Lambda scan completed with status"
                  /\ ev[i].message.arg = <<item.scan_status, item.scan_detail>>
                  /\ ev[i + 1].message.kind = "ClamAV stdout:"
                  /\ ev[i + 2].message.kind = "ClamAV stderr:"
                  /\ \A j \in (i + 1)..Len(ev) :
                        ev[j].message.kind # "Lambda scan completed with status"

C12_NoLostEvents ==
    [][/\ \A w \in Workers :
            (Acts(w) /\ table' # table)
                => LET r == wk[w]
                       k == <<r.file_id, r.scan_timestamp>>
                       sent == IF r.pc = "ae_update"
                               THEN << Event(r.ae_now, r.ae_msg[1], r.ae_msg[2]) >>
                               ELSE NewEvents(now', r.status, r.detail, r.stdout, r.stderr)
                   IN  /\ k \in DOMAIN table
                       /\ table'[k].scan_events = table[k].scan_events \o sent
                       /\ r.pc = "upd_write"
                            => /\ table'[k].scan_status = r.status
                               /\ table'[k].scan_detail = r.detail
                               /\ table'[k].updated_at = now'
       /\ \A k \in DOMAIN table' : StatusHasEvents(table'[k])]_vars

\* C12 witness: two workers scanned one record at the same time with different
\* verdicts; each reported its start before either wrote its result, and the
\* record holds the start and the three result events of both.
C12_Witness ==
    \E k \in DOMAIN table :
        LET ev == table[k].scan_events
        IN  /\ \A w \in Workers : wk[w].pc = "done" /\ wk[w].file_id = k[1]
            /\ wk[1].status # wk[2].status
            /\ Len(ev) = 9
            /\ ev[3].message.kind = "Lambda scanner started for this file."
            /\ ev[4].message.arg # ev[7].message.arg

\* C13: when exactly two notifications of one object were delivered, both
\* workers found its record PENDING when they began, and clamscan gave both
\* the same exit code, then once both are at the end of the job the status and
\* detail of the record are those one job with that exit code writes; if no
\* update was applied at all the record is still PENDING, as after one job
\* whose update failed. Only the events are doubled.
NotifiedFor(file_id) ==
    {<<w, i>> \in Workers \X (1..MaxDeliveries) :
        /\ i <= Len(wk[w].records)
        /\ Truthy(wk[w].records[i].key)
        /\ ParseFileId(wk[w].records[i].key) = file_id}

CompletedEvents(ev) ==
    SelectSeq(ev, LAMBDA e : e.message.kind = "Lambda scan completed with status")

ConcurrentDuplicates(w1, w2) ==
    /\ w1 # w2
    /\ wk[w1].pc = "done" /\ wk[w2].pc = "done"
    /\ Truthy(wk[w1].file_id)
    /\ wk[w1].file_id = wk[w2].file_id
    /\ wk[w1].guard = "PENDING" /\ wk[w2].guard = "PENDING"
    /\ wk[w1].rc # -1
    /\ wk[w1].rc = wk[w2].rc
    /\ NotifiedFor(wk[w1].file_id) = {<<w1, wk[w1].idx>>, <<w2, wk[w2].idx>>}

C13_ConcurrentDuplicates ==
    \A w1, w2 \in Workers :
        ConcurrentDuplicates(w1, w2)
            => LET r == wk[w1]
                   item == QueryLatest(table, r.file_id)[1]
               IN  \/ /\ item.scan_status = r.status
                      /\ item.scan_detail = r.detail
                      /\ \A i \in 1..Len(CompletedEvents(item.scan_events)) :
                            CompletedEvents(item.scan_events)[i].message.arg
                                = <<r.status, r.detail>>
                   \/ /\ item.scan_status = "PENDING"
                      /\ CompletedEvents(item.scan_events) = <<>>

\* C13 witness: two workers scanned one PENDING record at the same time, both
\* with exit code 1, and both updates were applied.
C13_Witness ==
    \E w1, w2 \in Workers :
        /\ ConcurrentDuplicates(w1, w2)
        /\ wk[w1].rc = 1
        /\ LatestStatus(wk[w1].file_id) = "INFECTED"
        /\ Len(CompletedEvents(QueryLatest(table, wk[w1].file_id)[1].scan_events)) = 2

\* C14: once the handling of a record is over, on success and on every
\* failure, the file the worker downloaded for it is no longer on its disk.
C14_LocalCopyReleased ==
    \A w \in Workers :
        (~InRecord(w) \/ wk[w].pc = "done") => wk[w].local_file = None

\* C15: when clamscan exits with code 1 and its output has a line with FOUND,
\* and the record exists and no call failed, the latest record is INFECTED at
\* the end of the job and its detail contains a FOUND line of the output.
ThreatLines(text) ==
    {i \in 1..Len(text) : \E j \in 1..Len(text[i].text) : text[i].text[j] = "FOUND"}

\* the words of the details run_clamscan writes
DetailWords(d) ==
    CASE d = "No malware detected by ClamAV." -> <<"No", "malware", "detected", "by", "ClamAV.">>
      [] d = "Malware detected by ClamAV." -> <<"Malware", "detected", "by", "ClamAV.">>
      [] d = "ClamAV error (exit code 2)." -> <<"ClamAV", "error", "(exit", "code", "2).">>
      [] OTHER -> <<d>>

Contains(words, sub) ==
    \E i \in 0..(Len(words) - Len(sub)) : SubSeq(words, i + 1, i + Len(sub)) = sub

C15_InfectedDetail ==
    \A w \in Workers :
        LET r == wk[w]
        IN  (/\ r.pc = "done"
             /\ r.rc = 1
             /\ ThreatLines(r.stdout) # {}
             /\ r.guard # "None"
             /\ faults = 0)
                => /\ LatestStatus(r.file_id) = "INFECTED"
                   /\ \E i \in ThreatLines(r.stdout) :
                         Contains(DetailWords(LatestDetail(r.file_id)), r.stdout[i].text)

\* C16: each completed scan appends exactly three entries to the events of
\* its record: when no call failed and no job is under way, a record holds its
\* upload entry and three entries for each completed scan, and no stdout or
\* stderr entry holds more than 2048 characters.
OutputsBounded(ev) ==
    \A i \in 1..Len(ev) :
        ev[i].message.kind \in {"ClamAV stdout:", "ClamAV stderr:"}
            => TextLen(ev[i].message.arg) <= StdoutLimit

C16_ThreeEntriesPerScan ==
    (faults = 0 /\ \A w \in Workers : ~InRecord(w))
        => \A k \in DOMAIN table :
              LET ev == table[k].scan_events
              IN  /\ Len(ev) = 1 + 3 * Len(CompletedEvents(ev))
                  /\ OutputsBounded(ev)

\* C16, amended: the final update of a completed scan appends exactly three
\* entries, whose stdout and stderr are the first min(len, 2048) characters of
\* what clamscan printed; no stdout or stderr entry of any record holds more
\* than 2048 characters; with the start entry that append_event adds when it
\* finds the record, a completed scan appends three or four entries in all.
C16_BoundedEventGrowth ==
    [][/\ \A w \in Workers :
            (Acts(w) /\ wk[w].pc = "upd_write" /\ table' # table)
                => LET r == wk[w]
                       k == <<r.file_id, r.scan_timestamp>>
                       old == table[k].scan_events
                       new == table'[k].scan_events
                   IN  /\ Len(new) = Len(old) + 3
                       /\ new[Len(old) + 2].message.kind = "ClamAV stdout:"
                       /\ TextLen(new[Len(old) + 2].message.arg)
                            = Min(TextLen(r.stdout), StdoutLimit)
                       /\ new[Len(old) + 3].message.kind = "ClamAV stderr:"
                       /\ TextLen(new[Len(old) + 3].message.arg)
                            = Min(TextLen(r.stderr), StdoutLimit)
       /\ \A k \in DOMAIN table' : OutputsBounded(table'[k].scan_events)
       /\ (faults' = 0 /\ \A w \in Workers : wk'[w].pc \in {"idle", "loop", "returned"})
            => \A k \in DOMAIN table' :
                  LET ev == table'[k].scan_events
                      c == Len(CompletedEvents(ev))
                  IN  1 + 3 * c <= Len(ev) /\ Len(ev) <= 1 + 4 * c]_vars

\* C16 witness: clamscan printed more than 2048 characters on stdout, and the
\* record holds the upload entry, the start entry and the three entries of
\* the scan, the stdout entry with exactly 2048 characters.
C16_Witness ==
    \E w \in Workers :
        LET r == wk[w]
        IN  /\ r.pc = "done"
            /\ TextLen(r.stdout) > StdoutLimit
            /\ HasRow(r.file_id)
            /\ LET ev == QueryLatest(table, r.file_id)[1].scan_events
               IN  /\ Len(ev) = 5
                   /\ ev[4].message.kind = "ClamAV stdout:"
                   /\ TextLen(ev[4].message.arg) = StdoutLimit

\* C17: when lambda_handler returns and no call has failed, every entry of
\* results that carries a status for a key of the form uploads/<file_id>/...
\* agrees with the table: the file_id has a record and the status of its
\* latest record is the status of the entry.
C17_ResultAgreesWithLedger ==
    [][\A w \in Workers :
          (Acts(w) /\ wk'[w].pc = "returned" /\ faults = 0)
              => \A i \in 1..Len(wk'[w].results) :
                    LET e == wk'[w].results[i]
                    IN  (DOMAIN e # {"error"} /\ Truthy(e.file_id))
                            => /\ HasRow(e.file_id)
                               /\ LatestStatus(e.file_id) = e.status]_vars

\* C18: a step of a worker that handles a record of uploads/<file_id>/...
\* creates no row and deletes none, changes no row but the latest one of that
\* file_id, and changes nothing in it but scan_status, scan_detail, updated_at
\* and scan_events.
FrozenFields(item) ==
    <<item.file_id, item.scan_timestamp, item.file_name, item.s3_bucket,
      item.s3_key, item.created_at>>

C18_WorkerFrame ==
    [][\A w \in Workers :
          Acts(w)
              => /\ DOMAIN table' = DOMAIN table
                 /\ \A k \in DOMAIN table :
                       /\ FrozenFields(table'[k]) = FrozenFields(table[k])
                       /\ table'[k] # table[k]
                            => /\ k[1] = wk[w].file_id
                               /\ IsLatestKey(table, k)]_vars

\* C18 witness: two objects have a record; a worker has scanned one to a
\* terminal status and the record of the other is as upload_file wrote it.
C18_Witness ==
    \E w \in Workers : \E k, j \in DOMAIN table :
        /\ wk[w].pc = "done"
        /\ k[1] = wk[w].file_id
        /\ j[1] # k[1]
        /\ table[k].scan_status \in TerminalStatuses
        /\ table[j] = PendingItem(table[j].file_id, table[j].file_name,
                                  table[j].s3_key, table[j].created_at)

\* C19: when ensure_clamav_db fails for a record whose file_id had a record
\* when the job began, clamscan is not run for it, no step of the handling
\* changes a status or a detail, the job ends with exactly one failure entry
\* in the events of the record, and the entry added to results holds only the
\* error.
HandlesDbFailure(w) ==
    Acts(w) /\ (wk[w].exc \in FreshclamFailures \/ wk'[w].exc \in FreshclamFailures)

FailureEvents(ev) ==
    SelectSeq(ev, LAMBDA e : e.message.kind = "Failed to update ClamAV DB:")

StatusAndDetail(t) == [k \in DOMAIN t |-> <<t[k].scan_status, t[k].scan_detail>>]

EndsWithError(w) ==
    /\ Len(wk'[w].results) = Len(wk[w].results) + 1
    /\ wk'[w].results[Len(wk'[w].results)] = [error |-> wk'[w].exc]

C19_DbUpdateFailure ==
    [][\A w \in Workers :
          HandlesDbFailure(w)
              => /\ wk[w].pc # "clamscan" /\ wk'[w].pc # "clamscan" /\ wk'[w].rc = -1
                 /\ StatusAndDetail(table') = StatusAndDetail(table)
                 /\ (wk[w].pc # "done" /\ wk'[w].pc = "done")
                      => /\ EndsWithError(w)
                         /\ wk[w].guard # "None"
                              => Len(FailureEvents(
                                     QueryLatest(table', wk[w].file_id)[1].scan_events)) = 1]_vars

\* C19, amended: when ensure_clamav_db fails, clamscan is not run for the
\* record, and the handling changes the table in at most one step: the update
\* of append_event, which appends exactly one failure entry to the latest
\* record and sets its updated_at, and leaves status and detail as they are.
\* When append_event finds no record, or one of its DynamoDB calls raises, no
\* entry is appended. The entry added to results holds only the error.
C19_DbUpdateFailureHandled ==
    [][\A w \in Workers :
          HandlesDbFailure(w)
              => LET r == wk[w]
                     k == <<r.file_id, r.scan_timestamp>>
                 IN  /\ r.pc # "clamscan" /\ wk'[w].pc # "clamscan" /\ wk'[w].rc = -1
                     /\ \/ table' = table
                        \/ /\ r.pc = "ae_update"
                           /\ k \in DOMAIN table
                           /\ table' = [table EXCEPT
                                  ![k].updated_at = r.ae_now,
                                  ![k].scan_events = @ \o
                                      << Event(r.ae_now, "Failed to update ClamAV DB:",
                                               <<r.exc>>) >>]
                     /\ r.pc = "ae_update" => wk'[w].pc = "done"
                     /\ (r.pc # "done" /\ wk'[w].pc = "done") => EndsWithError(w)]_vars

\* C19 witness: freshclam failed for a record that is still PENDING; the job
\* is over, the record holds one failure entry with the error, and results
\* holds the error alone.
C19_Witness ==
    \E w \in Workers :
        LET r == wk[w]
        IN  /\ r.pc = "done"
            /\ r.exc \in FreshclamFailures
            /\ r.rc = -1
            /\ HasRow(r.file_id)
            /\ LatestStatus(r.file_id) = "PENDING"
            /\ FailureEvents(QueryLatest(table, r.file_id)[1].scan_events)
                 = << Event(now, "Failed to update ClamAV DB:", <<r.exc>>) >>
            /\ r.results[Len(r.results)] = [error |-> r.exc]

\* C20: upload_file answers 200 with a file_id only in a step after which the
\* object uploads/<file_id>/<name> is in the bucket and the table holds a
\* record of that file_id, written by this request, with status PENDING and
\* one event; an answer with an error carries no file_id; a failed S3 upload
\* leaves the table as it is, and no record exists without its object.
Answers == up'.resp # up.resp

C20_IntakeAtomicity ==
    [][/\ (Answers /\ up'.resp.code = 200)
            => LET file_id == up'.resp.file_id
                   s3_key == S3Key(file_id, up'.resp.file_name)
               IN  /\ s3_key \in s3objects'
                   /\ RowsOf(table, file_id) = {}
                   /\ \E k \in RowsOf(table', file_id) :
                         /\ RowsOf(table', file_id) = {k}
                         /\ table'[k].scan_status = "PENDING"
                         /\ table'[k].s3_key = s3_key
                         /\ Len(table'[k].scan_events) = 1
       /\ (Answers /\ up'.resp.code # 200) => "file_id" \notin DOMAIN up'.resp
       /\ (Answers /\ up.pc = "idle" /\ up'.resp.code = 500) => table' = table
       /\ \A k \in DOMAIN table' : table'[k].s3_key \in s3objects']_vars

\* C20 witness: of two uploads the S3 upload of one failed and the other was
\* answered with 200; one object and one record exist.
C20_Witness ==
    /\ up.resp.code = 200
    /\ nextId = 2
    /\ Cardinality(s3objects) = 1
    /\ \E k \in DOMAIN table :
          /\ DOMAIN table = {k}
          /\ k[1] = up.resp.file_id
          /\ table[k].s3_key \in s3objects

====
